---- MODULE Spec2Model ----
(***************************************************************************)
(* DonationFormValidator: the form linter of src/basic.js (JavaScript) and *)
(* its Java copy src/unnamed/part_000.                                     *)
(*                                                                         *)
(* Text is a sequence of atoms.  An atom is a run of characters that every *)
(* pattern of the source treats as a unit: ">", the double quote, "=", a   *)
(* single blank, a line feed, "$", "(", ")", the backslash are atoms of    *)
(* their own, a tag opener such as "<input" or "</input" is one atom, and  *)
(* every other atom is a word free of those characters.  Every literal of  *)
(* every pattern in the source is a whole number of atoms, so a regular    *)
(* expression over characters is matched here over atoms with the same     *)
(* leftmost, greedy, non-overlapping semantics.  A message built by string *)
(* concatenation is the concatenation of its atom sequences.               *)
(***************************************************************************)
EXTENDS Integers, Sequences, FiniteSets, TLC

----------------------------------------------------------------------------
(* Atoms and text building blocks *)

QUOTE == "\""
GT == ">"
SP == " "
LF == "\n"
BACKSLASH == "\\"
DOLLAR == "$"

Attr(k, v) == <<k, "=", QUOTE, v, QUOTE>>

Ind(n) == [i \in 1..n |-> SP]

RECURSIVE FlattenFrom(_, _)
\* the members of ss from the k-th on, concatenated
FlattenFrom(ss, k) == IF k > Len(ss) THEN <<>> ELSE ss[k] \o FlattenFrom(ss, k + 1)

Flatten(ss) == FlattenFrom(ss, 1)

\* String.prototype.includes / String.contains at position i
StartsWithAt(s, i, p) ==
    /\ i >= 1
    /\ i + Len(p) - 1 <= Len(s)
    /\ \A k \in 1..Len(p) : s[i + k - 1] = p[k]

includes(s, p) == \E i \in 1..(Len(s) + 1) : StartsWithAt(s, i, p)

\* \s of the regular expressions
IsSpace(a) == a \in {SP, LF, "\t", "\r", "\f"}

\* first index >= i holding atom a, or 0
IndexOfAtom(s, a, i) ==
    IF \E k \in i..Len(s) : s[k] = a
    THEN CHOOSE k \in i..Len(s) : s[k] = a /\ \A j \in i..(k - 1) : s[j] # a
    ELSE 0

----------------------------------------------------------------------------
(* The literal fragments the source repeats in generateCorrectedHTML,      *)
(* validateAllRequirements and fixFormHTML                                 *)

LabelFullName ==
    <<"<label", SP>> \o Attr("for", "fullName")
        \o <<GT, "Full", SP, "Name:", "</label", GT>>

InputFullName ==
    <<"<input", SP>> \o Attr("type", "text") \o <<SP>> \o Attr("id", "fullName")
        \o <<SP>> \o Attr("name", "name") \o <<SP, "required", GT>>

LabelEmailAddress ==
    <<"<label", SP>> \o Attr("for", "emailAddress")
        \o <<GT, "Email", SP, "Address:", "</label", GT>>

InputEmailAddress ==
    <<"<input", SP>> \o Attr("type", "email") \o <<SP>> \o Attr("id", "emailAddress")
        \o <<SP>> \o Attr("name", "email") \o <<SP, "required", GT>>

LabelDonationAmount ==
    <<"<label", SP>> \o Attr("for", "donationAmount")
        \o <<GT, "Donation", SP, "Amount", SP, "(", DOLLAR, ")", ":", "</label", GT>>

InputDonationAmount ==
    <<"<input", SP>> \o Attr("type", "number") \o <<SP>> \o Attr("id", "donationAmount")
        \o <<SP>> \o Attr("name", "amount") \o <<SP, "required", GT>>

LabelSubscribe ==
    <<"<label", SP>> \o Attr("for", "subscribe") \o <<GT, "Subscribe", "</label", GT>>

InputSubscribe ==
    <<"<input", SP>> \o Attr("type", "checkbox") \o <<SP>> \o Attr("id", "subscribe")
        \o <<SP>> \o Attr("name", "newsletter") \o <<GT>>

InputSubmit ==
    <<"<input", SP>> \o Attr("type", "submit") \o <<SP>> \o Attr("value", "Send") \o <<GT>>

CloseInput == <<"</input", GT>>

\* the lines both documents share, up to and including "<form>"
DocHead ==
    Flatten(<< <<"<!DOCTYPE", SP, "html", GT, LF>>,
               <<"<html", SP>>, Attr("lang", "en"), <<GT, LF>>,
               <<"<head", GT, LF>>,
               Ind(2), <<"<meta", SP>>, Attr("charset", "UTF-8"), <<GT, LF>>,
               Ind(2), <<"<title", GT, "Donation", SP, "Form", "</title", GT, LF>>,
               <<"</head", GT, LF>>,
               <<"<body", GT, LF>>,
               Ind(2), <<"<h1", GT, "Donation", SP, "Form", "</h1", GT, LF>>,
               Ind(2), <<"<form", GT, LF>> >>)

DocTail ==
    Ind(2) \o <<"</form", GT, LF, "</body", GT, LF, "</html", GT>>

\* the template with its submit input left out
generateCorrectedHTML_noSubmit ==
    Flatten(<< DocHead,
               Ind(4), LabelFullName, <<LF>>,
               Ind(4), InputFullName, <<LF>>,
               Ind(4), <<LF>>,
               Ind(4), LabelEmailAddress, <<LF>>,
               Ind(4), InputEmailAddress, <<LF>>,
               Ind(4), <<LF>>,
               Ind(4), LabelDonationAmount, <<LF>>,
               Ind(4), InputDonationAmount, <<LF>>,
               Ind(4), <<LF>>,
               Ind(4), LabelSubscribe, <<LF>>,
               Ind(4), InputSubscribe, <<LF>>,
               Ind(4), <<LF>>,
               DocTail >>)

generateCorrectedHTML ==
    Flatten(<< DocHead,
               Ind(4), LabelFullName, <<LF>>,
               Ind(4), InputFullName, <<LF>>,
               Ind(4), <<LF>>,
               Ind(4), LabelEmailAddress, <<LF>>,
               Ind(4), InputEmailAddress, <<LF>>,
               Ind(4), <<LF>>,
               Ind(4), LabelDonationAmount, <<LF>>,
               Ind(4), InputDonationAmount, <<LF>>,
               Ind(4), <<LF>>,
               Ind(4), LabelSubscribe, <<LF>>,
               Ind(4), InputSubscribe, <<LF>>,
               Ind(4), <<LF>>,
               Ind(4), InputSubmit, <<LF>>,
               DocTail >>)

RawInputName ==
    <<"<input", SP>> \o Attr("type", "text") \o <<SP>> \o Attr("name", "name") \o <<GT>>

RawInputEmail ==
    <<"<input", SP>> \o Attr("type", "text") \o <<SP>> \o Attr("name", "email") \o <<GT>>

RawInputAmount ==
    <<"<input", SP>> \o Attr("type", "number") \o <<SP>> \o Attr("name", "amount") \o <<GT>>

RawInputNewsletter ==
    <<"<input", SP>> \o Attr("type", "checkbox") \o <<SP>> \o Attr("name", "newsletter")
        \o <<GT>>

originalHTML ==
    Flatten(<< DocHead,
               Ind(4), <<LF>>,
               Ind(4), <<"Full", SP, "Name:", LF>>,
               Ind(4), RawInputName, CloseInput, <<LF>>,
               <<LF>>,
               Ind(4), <<"Email", SP, "Address:", LF>>,
               Ind(4), RawInputEmail, <<LF>>,
               <<LF>>,
               Ind(4), <<"Donation", SP, "Amount", SP, "(", DOLLAR, ")", ":", LF>>,
               Ind(4), RawInputAmount, CloseInput, <<LF>>,
               <<LF>>,
               Ind(4), RawInputNewsletter, CloseInput, <<LF>>,
               Ind(4), <<"Subscribe", LF>>,
               <<LF>>,
               Ind(4), InputSubmit, CloseInput, <<LF>>,
               DocTail >>)

----------------------------------------------------------------------------
(* Regular expressions of the source, matched over atoms.  An intermediate *)
(* result that is used more than once is bound by a quantifier or by       *)
(* The({ e(x) : x \in {v} }), which evaluates v once.                       *)

\* the one member of a singleton set
The(S) == CHOOSE x \in S : TRUE

Range(f) == { f[x] : x \in DOMAIN f }

\* index of the closing quote of a non-empty [^"]+ that starts at k, or 0
QuotedEnd(s, k) ==
    IF k <= Len(s) /\ s[k] # QUOTE THEN IndexOfAtom(s, QUOTE, k + 1) ELSE 0

\* key="([^"]+)" matches at k
AttrAt(s, k, key) ==
    /\ StartsWithAt(s, k, <<key, "=", QUOTE>>)
    /\ QuotedEnd(s, k + 3) > 0

\* group 1 of key="([^"]+)" matched at k
AttrGroup(s, k) == SubSeq(s, k + 3, QuotedEnd(s, k + 3) - 1)

\* <input[^>]+id="([^"]+)"  matches from i with its id= at k: at least one
\* atom lies between, and none of the atoms between is ">"
InputIdAt(s, i, k) ==
    /\ k >= i + 2
    /\ AttrAt(s, k, "id")
    /\ \A j \in (i + 1)..(k - 1) : s[j] # GT

\* where the greedy [^>]+ of the match from i puts id= : at the last
\* position possible, or 0 when there is none
LastInputId(s, i) ==
    IF \E k \in (i + 2)..Len(s) : InputIdAt(s, i, k)
    THEN CHOOSE k \in (i + 2)..Len(s) :
             InputIdAt(s, i, k) /\ \A j \in (k + 1)..Len(s) : ~InputIdAt(s, i, j)
    ELSE 0

\* the tag opened at i holds word before its ">" at g
TagHolds(s, i, g, word) == \E k \in (i + 1)..(g - 1) : s[k] = word

\* last index of the match of the named pattern that starts at i, or 0
MatchEnd(pat, s, i) ==
    CASE pat = "labelForGt" ->
            \* /<label for="([^"]+)">/
            IF StartsWithAt(s, i, <<"<label", SP>>) /\ AttrAt(s, i + 2, "for")
               /\ StartsWithAt(s, QuotedEnd(s, i + 5) + 1, <<GT>>)
            THEN QuotedEnd(s, i + 5) + 1 ELSE 0
      [] pat = "labelFor" ->
            \* /<label for="([^"]+)"/
            IF StartsWithAt(s, i, <<"<label", SP>>) /\ AttrAt(s, i + 2, "for")
            THEN QuotedEnd(s, i + 5) ELSE 0
      [] pat = "inputId" ->
            \* /<input[^>]+id="([^"]+)"/
            IF s[i] = "<input" /\ LastInputId(s, i) > 0
            THEN QuotedEnd(s, LastInputId(s, i) + 3) ELSE 0
      [] pat = "requiredInput" ->
            \* /<input[^>]+(type="text"|type="email"|type="number")[^>]*>/
            IF s[i] = "<input"
               /\ \E g \in {IndexOfAtom(s, GT, i + 1)} :
                     /\ g > 0
                     /\ \E k \in (i + 2)..(g - 5) : \E v \in {"text", "email", "number"} :
                            StartsWithAt(s, k, Attr("type", v))
            THEN IndexOfAtom(s, GT, i + 1) ELSE 0
      [] pat = "inputTag" ->
            \* /<input[^>]*>/
            IF s[i] = "<input" THEN IndexOfAtom(s, GT, i + 1) ELSE 0
      [] pat = "labelTag" ->
            \* /<label[^>]*>/
            IF s[i] = "<label" THEN IndexOfAtom(s, GT, i + 1) ELSE 0
      [] pat = "checkboxRequired" ->
            \* /<input type="checkbox"[^>]*required[^>]*>/
            IF StartsWithAt(s, i, <<"<input", SP>> \o Attr("type", "checkbox"))
               /\ \E g \in {IndexOfAtom(s, GT, i + 7)} :
                     g > 0 /\ TagHolds(s, i + 6, g, "required")
            THEN IndexOfAtom(s, GT, i + 7) ELSE 0
      [] pat = "submitRequired" ->
            \* /<input type="submit"[^>]*required[^>]*>/
            IF StartsWithAt(s, i, <<"<input", SP>> \o Attr("type", "submit"))
               /\ \E g \in {IndexOfAtom(s, GT, i + 7)} :
                     g > 0 /\ TagHolds(s, i + 6, g, "required")
            THEN IndexOfAtom(s, GT, i + 7) ELSE 0

\* the named pattern matches at b and nowhere in i..(b - 1)
FirstMatchAt(pat, s, i, b) ==
    /\ MatchEnd(pat, s, b) > 0
    /\ \A j \in i..(b - 1) : MatchEnd(pat, s, j) = 0

\* the matches of a global search from i on, as <<first, last>> index pairs:
\* leftmost first, the search resuming after each match
RECURSIVE MatchAll(_, _, _)
MatchAll(pat, s, i) ==
    IF \A k \in i..Len(s) : MatchEnd(pat, s, k) = 0 THEN <<>>
    ELSE The({ << <<b, e>> >> \o MatchAll(pat, s, e + 1) :
                   <<b, e>> \in { <<k, MatchEnd(pat, s, k)>> :
                                     k \in { j \in i..Len(s) : FirstMatchAt(pat, s, i, j) } } })

\* the matched strings of a global search, in document order
Matched(pat, s) ==
    The({ [n \in DOMAIN ms |-> SubSeq(s, ms[n][1], ms[n][2])] :
              ms \in {MatchAll(pat, s, 1)} })

\* str.match(/key="([^"]+)"/)[1] ; <<>> stands for the null match
FirstGroup(str, key) ==
    IF \E k \in 1..Len(str) : AttrAt(str, k, key)
    THEN AttrGroup(str, CHOOSE k \in 1..Len(str) :
                            AttrAt(str, k, key) /\ \A j \in 1..(k - 1) : ~AttrAt(str, j, key))
    ELSE <<>>

----------------------------------------------------------------------------
(* Diagnostics.  A message is never matched against a pattern, so its fixed *)
(* parts are single atoms.                                                  *)

VoidMsg == <<"Found </input> closing tags - input elements are void elements">>

LabelMsg(id) ==
    <<"Label with for=\"">> \o id
        \o <<"\" has no corresponding input with matching id">>

RequiredMsg(type) ==
    <<"Input with type ">> \o type \o <<" should have required attribute">>

EmailMsg == <<"Email input should have type=\"email\" instead of type=\"text\"">>

----------------------------------------------------------------------------
(* src/basic.js *)

\* labelMatches.map(match => match.match(/for="([^"]+)"/)[1])
labelIds(htmlContent) ==
    The({ [n \in DOMAIN m |-> FirstGroup(m[n], "for")] :
              m \in {Matched("labelForGt", htmlContent)} })

\* inputIdMatches.map(match => match.match(/id="([^"]+)"/)[1])
inputIds(htmlContent) ==
    The({ [n \in DOMAIN m |-> FirstGroup(m[n], "id")] :
              m \in {Matched("inputId", htmlContent)} })

\* the messages for the members of ls that are not among ids, in order
orphanMessages(ls, ids) ==
    The({ [n \in DOMAIN orphans |-> LabelMsg(orphans[n])] :
              orphans \in {SelectSeq(ls, LAMBDA id : id \notin ids)} })

\* the label-association block: skipped unless both searches matched
labelErrors(htmlContent) ==
    The({ IF Len(ls) > 0 /\ Len(is) > 0 THEN orphanMessages(ls, Range(is)) ELSE <<>> :
              ls \in {labelIds(htmlContent)}, is \in {inputIds(htmlContent)} })

\* the test on 'required' inverted
requiredErrorsOf_inverted(tags) ==
    The({ [n \in DOMAIN lacking |-> RequiredMsg(FirstGroup(lacking[n], "type"))] :
              lacking \in {SelectSeq(tags, LAMBDA input : includes(input, <<"required">>))} })

\* requiredInputs.forEach(...) over the matched input tags
requiredErrorsOf(tags) ==
    The({ [n \in DOMAIN lacking |-> RequiredMsg(FirstGroup(lacking[n], "type"))] :
              lacking \in {SelectSeq(tags, LAMBDA input : ~includes(input, <<"required">>))} })

\* every input tag examined, whatever its type
requiredErrors_anyType(htmlContent) ==
    The({ requiredErrorsOf(tags) : tags \in {Matched("inputTag", htmlContent)} })

requiredErrors(htmlContent) ==
    The({ requiredErrorsOf(tags) : tags \in {Matched("requiredInput", htmlContent)} })

\* the closing tag looked for with a blank before its ">"
voidError_blank(htmlContent) ==
    IF includes(htmlContent, <<"</input", SP, GT>>) THEN <<VoidMsg>> ELSE <<>>

\* the check for </input> closing tags
voidError(htmlContent) ==
    IF includes(htmlContent, CloseInput) THEN <<VoidMsg>> ELSE <<>>

\* the word email looked for anywhere, a name="email" included
emailError_anyEmail(htmlContent) ==
    IF ~includes(htmlContent, <<"email">>) THEN <<EmailMsg>> ELSE <<>>

\* the email input type check
emailError(htmlContent) ==
    IF ~includes(htmlContent, Attr("type", "email")) THEN <<EmailMsg>> ELSE <<>>

\* the email type check made before the other three
validateFormStructure_emailFirst(htmlContent) ==
    emailError(htmlContent)
        \o voidError(htmlContent)
        \o labelErrors(htmlContent)
        \o requiredErrors(htmlContent)

validateFormStructure(htmlContent) ==
    voidError(htmlContent)
        \o labelErrors(htmlContent)
        \o requiredErrors(htmlContent)
        \o emailError(htmlContent)

\* a [1] applied to a null match raises TypeError
validateFormStructureThrows(htmlContent) ==
    \/ \E ls \in {labelIds(htmlContent)}, is \in {inputIds(htmlContent)} :
          Len(ls) > 0 /\ Len(is) > 0 /\ <<>> \in Range(ls) \cup Range(is)
    \/ \E tags \in {Matched("requiredInput", htmlContent)} :
          \E n \in DOMAIN tags :
             ~includes(tags[n], <<"required">>) /\ FirstGroup(tags[n], "type") = <<>>

\* labelForMatches.map(match => match.match(/for="([^"]+)"/)[1])
labelFors(htmlContent) ==
    The({ [n \in DOMAIN m |-> FirstGroup(m[n], "for")] :
              m \in {Matched("labelFor", htmlContent)} })

checkLabelInputAssociation(htmlContent) ==
    \E fors \in {labelFors(htmlContent)}, ids \in {inputIds(htmlContent)} :
       \A n \in DOMAIN fors : fors[n] \in Range(ids)

\* five or more input tags accepted
fiveInputElements_atLeast(htmlContent) ==
    Len(MatchAll("inputTag", htmlContent, 1)) >= 5

\* (htmlContent.match(/<input[^>]*>/g) || []).length === 5 ; inputCount == 5
fiveInputElements(htmlContent) ==
    Len(MatchAll("inputTag", htmlContent, 1)) = 5

\* checkboxNotRequired and submitNotRequired look for the tag with required
\* added before its ">"
WithRequired(tag) == SubSeq(tag, 1, Len(tag) - 1) \o <<SP, "required", GT>>

\* the association rule recorded only when the markup has a label
validateAllRequirements_partial(htmlContent) ==
    IF includes(htmlContent, <<"<label">>)
    THEN [ noInputClosingTags |-> ~includes(htmlContent, CloseInput),
           fiveInputElements |-> fiveInputElements(htmlContent),
           fourLabelElements |-> Len(MatchAll("labelTag", htmlContent, 1)) = 4,
           firstLabelText |-> includes(htmlContent, LabelFullName),
           firstInputRequired |-> includes(htmlContent, InputFullName),
           secondLabelText |-> includes(htmlContent, LabelEmailAddress),
           secondInputRequired |-> includes(htmlContent, InputEmailAddress),
           thirdLabelText |-> includes(htmlContent, LabelDonationAmount),
           thirdInputRequired |-> includes(htmlContent, InputDonationAmount),
           fourthLabelText |-> includes(htmlContent, LabelSubscribe),
           labelInputAssociation |-> checkLabelInputAssociation(htmlContent),
           emailInputType |-> includes(htmlContent, Attr("type", "email")),
           checkboxNotRequired |-> ~includes(htmlContent, WithRequired(InputSubscribe)),
           submitNotRequired |-> ~includes(htmlContent, WithRequired(InputSubmit)) ]
    ELSE [ noInputClosingTags |-> ~includes(htmlContent, CloseInput),
           fiveInputElements |-> fiveInputElements(htmlContent),
           fourLabelElements |-> FALSE,
           firstLabelText |-> FALSE,
           firstInputRequired |-> includes(htmlContent, InputFullName),
           secondLabelText |-> FALSE,
           secondInputRequired |-> includes(htmlContent, InputEmailAddress),
           thirdLabelText |-> FALSE,
           thirdInputRequired |-> includes(htmlContent, InputDonationAmount),
           fourthLabelText |-> FALSE,
           emailInputType |-> includes(htmlContent, Attr("type", "email")),
           checkboxNotRequired |-> ~includes(htmlContent, WithRequired(InputSubscribe)),
           submitNotRequired |-> ~includes(htmlContent, WithRequired(InputSubmit)) ]

validateAllRequirements(htmlContent) ==
    [ noInputClosingTags |-> ~includes(htmlContent, CloseInput),
      fiveInputElements |-> fiveInputElements(htmlContent),
      fourLabelElements |-> Len(MatchAll("labelTag", htmlContent, 1)) = 4,
      firstLabelText |-> includes(htmlContent, LabelFullName),
      firstInputRequired |-> includes(htmlContent, InputFullName),
      secondLabelText |-> includes(htmlContent, LabelEmailAddress),
      secondInputRequired |-> includes(htmlContent, InputEmailAddress),
      thirdLabelText |-> includes(htmlContent, LabelDonationAmount),
      thirdInputRequired |-> includes(htmlContent, InputDonationAmount),
      fourthLabelText |-> includes(htmlContent, LabelSubscribe),
      labelInputAssociation |-> checkLabelInputAssociation(htmlContent),
      emailInputType |-> includes(htmlContent, Attr("type", "email")),
      checkboxNotRequired |-> ~includes(htmlContent, WithRequired(InputSubscribe)),
      submitNotRequired |-> ~includes(htmlContent, WithRequired(InputSubmit)) ]

\* a [1] applied to a null match raises TypeError
validateAllRequirementsThrows(htmlContent) ==
    \E fors \in {labelFors(htmlContent)}, ids \in {inputIds(htmlContent)} :
       <<>> \in Range(fors) \cup Range(ids)

----------------------------------------------------------------------------
(* src/unnamed/part_000 (DonationFormValidator.java) *)

\* labelMatcher.group(1) of every match, collected in a HashSet
J_labelIds(htmlContent) ==
    The({ { AttrGroup(htmlContent, ms[n][1] + 2) : n \in DOMAIN ms } :
              ms \in {MatchAll("labelForGt", htmlContent, 1)} })

\* inputIdMatcher.group(1) of every match, collected in a HashSet
J_inputIds(htmlContent) ==
    The({ { AttrGroup(htmlContent, LastInputId(htmlContent, ms[n][1])) : n \in DOMAIN ms } :
              ms \in {MatchAll("inputId", htmlContent, 1)} })

\* the iteration orders a HashSet may present its members in
Orderings(S) == { f \in [1..Cardinality(S) -> S] : Range(f) = S }

\* the while loop over the matched input tags: a tag without 'required'
\* gets a message if typePattern finds a type in it
J_requiredErrorsOf(tags) ==
    The({ [n \in DOMAIN lacking |-> RequiredMsg(FirstGroup(lacking[n], "type"))] :
              lacking \in {SelectSeq(tags, LAMBDA inputTag :
                                /\ ~includes(inputTag, <<"required">>)
                                /\ FirstGroup(inputTag, "type") # <<>>)} })

\* order: the order in which the for loop meets the members of labelIds
J_validateFormStructure(htmlContent, order) ==
    voidError(htmlContent)
        \o The({ orphanMessages(order, ids) : ids \in {J_inputIds(htmlContent)} })
        \o The({ J_requiredErrorsOf(tags) : tags \in {Matched("requiredInput", htmlContent)} })
        \o emailError(htmlContent)

J_checkLabelInputAssociation(htmlContent) ==
    \E ms \in {MatchAll("labelFor", htmlContent, 1)}, ids \in {J_inputIds(htmlContent)} :
       \A n \in DOMAIN ms : AttrGroup(htmlContent, ms[n][1] + 2) \in ids

J_validateAllRequirements(htmlContent) ==
    [ no_input_closing_tags |-> ~includes(htmlContent, CloseInput),
      five_input_elements |-> fiveInputElements(htmlContent),
      four_label_elements |-> Len(MatchAll("labelTag", htmlContent, 1)) = 4,
      first_label_text |-> includes(htmlContent, LabelFullName),
      first_input_required |-> includes(htmlContent, InputFullName),
      second_label_text |-> includes(htmlContent, LabelEmailAddress),
      second_input_required |-> includes(htmlContent, InputEmailAddress),
      third_label_text |-> includes(htmlContent, LabelDonationAmount),
      third_input_required |-> includes(htmlContent, InputDonationAmount),
      fourth_label_text |-> includes(htmlContent, LabelSubscribe),
      label_input_association |-> J_checkLabelInputAssociation(htmlContent),
      email_input_type |-> includes(htmlContent, Attr("type", "email")),
      checkbox_not_required |-> MatchAll("checkboxRequired", htmlContent, 1) = <<>>,
      submit_not_required |-> MatchAll("submitRequired", htmlContent, 1) = <<>> ]

\* the outcome of a call that raised IllegalArgumentException
Thrown == [ok |-> FALSE, text |-> <<>>]

\* a.text followed by b.text, unless either raised
Then(a, b) == IF a.ok /\ b.ok THEN [ok |-> TRUE, text |-> a.text \o b.text] ELSE Thrown

Returned(t) == [ok |-> TRUE, text |-> t]

RECURSIVE IsSecond(_, _)
\* Matcher.appendReplacement reads the k-th atom of the replacement r
\* together with the backslash or "$" before it
IsSecond(r, k) == k > 1 /\ r[k - 1] \in {BACKSLASH, DOLLAR} /\ ~IsSecond(r, k - 1)

\* appendReplacement raises IllegalArgumentException: a backslash ends r, or
\* a "$" is not followed by a group number (the patterns here have group 0
\* only)
IllegalReplacement(r) ==
    \E k \in 1..Len(r) :
       /\ ~IsSecond(r, k)
       /\ \/ r[k] = BACKSLASH /\ k = Len(r)
          \/ r[k] = DOLLAR /\ (k = Len(r) \/ r[k + 1] # "0")

\* what the k-th atom of r appends for the match m: a backslash makes the
\* next character literal, "$0" stands for the match
ReplacementPiece(r, k, m) ==
    IF IsSecond(r, k) THEN (IF r[k - 1] = BACKSLASH THEN <<r[k]>> ELSE m)
    ELSE IF r[k] \in {BACKSLASH, DOLLAR} THEN <<>>
    ELSE <<r[k]>>

appendReplacement(r, m) ==
    IF IllegalReplacement(r) THEN Thrown
    ELSE Returned(FlattenFrom([k \in 1..Len(r) |-> ReplacementPiece(r, k, m)], 1))

\* the first index >= i that holds no white space (Len(s) + 1 if none)
SkipSpace(s, i) ==
    IF \E k \in i..Len(s) : ~IsSpace(s[k])
    THEN CHOOSE k \in i..Len(s) : ~IsSpace(s[k]) /\ \A j \in i..(k - 1) : IsSpace(s[j])
    ELSE Len(s) + 1

\* last index of the match at i of  pre \s* post  (pre alone when ~ws), or 0
FixMatchEnd(s, i, p) ==
    IF ~StartsWithAt(s, i, p.pre) THEN 0
    ELSE IF ~p.ws THEN i + Len(p.pre) - 1
    ELSE The({ IF StartsWithAt(s, j, p.post) THEN j + Len(p.post) - 1 ELSE 0 :
                   j \in {SkipSpace(s, i + Len(p.pre))} })

\* pattern p matches at b and nowhere in i..(b - 1)
FirstFixMatchAt(s, i, p, b) ==
    /\ FixMatchEnd(s, b, p) > 0
    /\ \A j \in i..(b - 1) : FixMatchEnd(s, j, p) = 0

RECURSIVE replaceFrom(_, _, _, _)
\* the text from i on with every match replaced: leftmost match first, the
\* search resuming after it
replaceFrom(s, i, p, r) ==
    IF \A k \in i..Len(s) : FixMatchEnd(s, k, p) = 0
    THEN Returned(SubSeq(s, i, Len(s)))
    ELSE The({ The({ Then(Returned(SubSeq(s, i, b - 1)), Then(a, rest)) :
                         a \in {appendReplacement(r, SubSeq(s, b, e))},
                         rest \in {replaceFrom(s, e + 1, p, r)} }) :
                   <<b, e>> \in { <<k, FixMatchEnd(s, k, p)>> :
                                     k \in { j \in i..Len(s) : FirstFixMatchAt(s, i, p, j) } } })

\* String.replaceAll(regex, replacement)
replaceAll(s, p, r) == replaceFrom(s, 1, p, r)

\* the email rewrite matching the tag up to its name, whatever follows
replacements_looseEmail ==
    << [p |-> [pre |-> CloseInput, ws |-> FALSE, post |-> <<>>],
        r |-> <<>>],
       [p |-> [pre |-> SubSeq(RawInputEmail, 1, Len(RawInputEmail) - 1),
               ws |-> FALSE, post |-> <<>>],
        r |-> SubSeq(InputEmailAddress, 1, Len(InputEmailAddress) - 1)],
       [p |-> [pre |-> <<"Full", SP, "Name:">>, ws |-> TRUE, post |-> RawInputName],
        r |-> LabelFullName \o <<BACKSLASH, "n">> \o Ind(4) \o InputFullName],
       [p |-> [pre |-> <<"Donation", SP, "Amount", SP, "(", DOLLAR, ")", ":">>,
               ws |-> TRUE, post |-> RawInputAmount],
        r |-> LabelDonationAmount \o <<BACKSLASH, "n">> \o Ind(4) \o InputDonationAmount],
       [p |-> [pre |-> RawInputNewsletter, ws |-> TRUE, post |-> <<"Subscribe">>],
        r |-> LabelSubscribe \o <<BACKSLASH, "n">> \o Ind(4) \o InputSubscribe] >>

\* the five (pattern, replacement) pairs of fixFormHTML, in order
replacements ==
    << [p |-> [pre |-> CloseInput, ws |-> FALSE, post |-> <<>>],
        r |-> <<>>],
       [p |-> [pre |-> RawInputEmail, ws |-> FALSE, post |-> <<>>],
        r |-> InputEmailAddress],
       [p |-> [pre |-> <<"Full", SP, "Name:">>, ws |-> TRUE, post |-> RawInputName],
        r |-> LabelFullName \o <<BACKSLASH, "n">> \o Ind(4) \o InputFullName],
       [p |-> [pre |-> <<"Donation", SP, "Amount", SP, "(", DOLLAR, ")", ":">>,
               ws |-> TRUE, post |-> RawInputAmount],
        r |-> LabelDonationAmount \o <<BACKSLASH, "n">> \o Ind(4) \o InputDonationAmount],
       [p |-> [pre |-> RawInputNewsletter, ws |-> TRUE, post |-> <<"Subscribe">>],
        r |-> LabelSubscribe \o <<BACKSLASH, "n">> \o Ind(4) \o InputSubscribe] >>

RECURSIVE fixFrom(_, _)
\* the rewrites from the n-th on, applied to fixedHtml
fixFrom(fixedHtml, n) ==
    IF n > Len(replacements) THEN Returned(fixedHtml)
    ELSE The({ IF step.ok THEN fixFrom(step.text, n + 1) ELSE Thrown :
                   step \in {replaceAll(fixedHtml, replacements[n].p, replacements[n].r)} })

fixFormHTML(originalHtml) == The({ fixFrom(text, 1) : text \in {originalHtml} })

----------------------------------------------------------------------------
(* The markup the operations are applied to.  A form is described by its   *)
(* elements (the FieldDescriptor of the data model: identifier, variant,   *)
(* required flag) and rendered to text; the description stays beside the   *)
(* text so that a result can be compared with what the markup contains.    *)

MaxElems == 2

MaxPasses == 1

Label(x) ==
    [el |-> "label", for |-> x, type |-> "", id |-> "", name |-> "",
     required |-> FALSE, closed |-> FALSE]

Input(t, i, n, r, c) ==
    [el |-> "input", for |-> "", type |-> t, id |-> i, name |-> n,
     required |-> r, closed |-> c]

Elements ==
    { Label("a"), Label("b"),
      Input("text", "a", "", TRUE, FALSE),
      Input("text", "", "email", FALSE, TRUE),
      Input("email", "b", "", FALSE, FALSE),
      Input("number", "b", "", FALSE, FALSE),
      Input("number", "", "", TRUE, FALSE),
      Input("checkbox", "a", "", FALSE, FALSE),
      Input("submit", "", "", FALSE, TRUE) }

RenderEl(d) ==
    IF d.el = "label"
    THEN <<"<label", SP>> \o Attr("for", d.for) \o <<GT, d.for, "</label", GT>>
    ELSE <<"<input", SP>> \o Attr("type", d.type)
             \o (IF d.id # "" THEN <<SP>> \o Attr("id", d.id) ELSE <<>>)
             \o (IF d.name # "" THEN <<SP>> \o Attr("name", d.name) ELSE <<>>)
             \o (IF d.required THEN <<SP, "required">> ELSE <<>>)
             \o <<GT>>
             \o (IF d.closed THEN CloseInput ELSE <<>>)

Render(f) == Flatten([n \in 1..Len(f) |-> RenderEl(f[n]) \o <<LF>>])

\* the elements of the reference template and of the defective sample
ReferenceForm ==
    << Label("fullName"), Input("text", "fullName", "name", TRUE, FALSE),
       Label("emailAddress"), Input("email", "emailAddress", "email", TRUE, FALSE),
       Label("donationAmount"), Input("number", "donationAmount", "amount", TRUE, FALSE),
       Label("subscribe"), Input("checkbox", "subscribe", "newsletter", FALSE, FALSE),
       Input("submit", "", "", FALSE, FALSE) >>

SampleForm ==
    << Input("text", "", "name", FALSE, TRUE),
       Input("text", "", "email", FALSE, FALSE),
       Input("number", "", "amount", FALSE, TRUE),
       Input("checkbox", "", "newsletter", FALSE, TRUE),
       Input("submit", "", "", FALSE, TRUE) >>

\* the sample with a second submit input
SixInputForm == SampleForm \o << Input("submit", "", "", FALSE, FALSE) >>

\* inputs that miss a rewrite shape of fixFormHTML by the order of their
\* attributes or by one attribute more
DeviantOrder ==
    <<"<input", SP>> \o Attr("name", "email") \o <<SP>> \o Attr("type", "text")
        \o <<GT, LF>>

DeviantExtra ==
    <<"<input", SP>> \o Attr("type", "text") \o <<SP>> \o Attr("name", "email")
        \o <<SP>> \o Attr("class", "x") \o <<GT, LF>>

DeviantName ==
    <<"Full", SP, "Name:", LF, "<input", SP>> \o Attr("type", "text") \o <<SP>>
        \o Attr("name", "name") \o <<SP, "required", GT, LF>>

Deviants ==
    { [form |-> << Input("text", "", "email", FALSE, FALSE) >>, text |-> DeviantOrder],
      [form |-> << Input("text", "", "email", FALSE, FALSE) >>, text |-> DeviantExtra],
      [form |-> << Input("text", "", "name", TRUE, FALSE) >>, text |-> DeviantName] }

Forms == UNION { [1..n -> Elements] : n \in 0..MaxElems }

----------------------------------------------------------------------------
(* src/README.md: QuantumDonationForm, the page script.  A field value is a *)
(* sequence of characters.  Styles (border colours, particles, the cursor)  *)
(* are left out: no method reads them back.                                 *)

\* the .form-input elements of the form, in document order; all three carry
\* the required attribute
FormInputs == <<"fullName", "emailAddress", "donationAmount">>

FieldType(field) ==
    CASE field = "fullName" -> "text"
      [] field = "emailAddress" -> "email"
      [] field = "donationAmount" -> "number"

hasRequired(field) == field \in {"fullName", "emailAddress", "donationAmount"}

\* String.prototype.trim
trim(v) ==
    IF \A k \in 1..Len(v) : IsSpace(v[k]) THEN <<>>
    ELSE SubSeq(v, CHOOSE a \in 1..Len(v) : ~IsSpace(v[a]) /\ \A j \in 1..(a - 1) : IsSpace(v[j]),
                   CHOOSE b \in 1..Len(v) : ~IsSpace(v[b]) /\ \A j \in (b + 1)..Len(v) : IsSpace(v[j]))

\* a run of one or more characters none of which is white space or "@"
IsLocalRun(v, a, b) == a <= b /\ \A k \in a..b : ~IsSpace(v[k]) /\ v[k] # "@"

\* /^[^\s@]+@[^\s@]+\.[^\s@]+$/.test(email)
isValidEmail(email) ==
    \E i, j \in 1..Len(email) :
       /\ i < j
       /\ email[i] = "@"
       /\ email[j] = "."
       /\ IsLocalRun(email, 1, i - 1)
       /\ IsLocalRun(email, i + 1, j - 1)
       /\ IsLocalRun(email, j + 1, Len(email))

Digits == <<"0", "1", "2", "3", "4", "5", "6", "7", "8", "9">>

RECURSIVE DigitsValue(_)
DigitsValue(v) ==
    IF v = <<>> THEN 0
    ELSE 10 * DigitsValue(SubSeq(v, 1, Len(v) - 1))
           + (CHOOSE d \in 0..9 : Digits[d + 1] = v[Len(v)])

\* parseFloat of the value of a number input: digits with an optional sign
parseFloat(v) == IF Head(v) = "-" THEN 0 - DigitsValue(Tail(v)) ELSE DigitsValue(v)

RequiredText == "This field is required"
EmailText == "Please enter a valid email address"
AmountText == "Please enter a positive amount"
FixText == "Please fix the errors before submitting"
SuccessText == "Quantum transfer successful! Thank you for your donation."
FailedText == "Quantum transfer failed. Please try again."

\* the message validateField hands to showFieldError, "" when the field is
\* valid
fieldError(field, fieldValue) ==
    IF hasRequired(field) /\ trim(fieldValue) = <<>> THEN RequiredText
    ELSE IF FieldType(field) = "email" /\ trim(fieldValue) # <<>>
            /\ ~isValidEmail(trim(fieldValue)) THEN EmailText
    ELSE IF FieldType(field) = "number" /\ trim(fieldValue) # <<>>
            /\ parseFloat(trim(fieldValue)) <= 0 THEN AmountText
    ELSE ""

\* validateField(field): isValid
validateField(field, fieldValue) == fieldError(field, fieldValue) = ""

\* the messages validateForm shows, one for every required input that fails
\* validateField, in document order
formErrorTexts(v) ==
    The({ [n \in DOMAIN failing |-> fieldError(failing[n], v[failing[n]])] :
              failing \in {SelectSeq(FormInputs,
                                     LAMBDA f : hasRequired(f) /\ ~validateField(f, v[f]))} })

\* validateForm(): isValid
validateForm(v) == formErrorTexts(v) = <<>>

\* (filledInputs / totalInputs) * 100, as a whole number of per cent
filledProgress(v) ==
    (Cardinality({ n \in DOMAIN FormInputs : trim(v[FormInputs[n]]) # <<>> }) * 100)
        \div Len(FormInputs)

VARIABLES
    inputs,        \* the value of every .form-input of this.form
    submitBtn,     \* this.submitBtn: disabled, and the loading class
    progressBar,   \* this.progressBar.style.width, in per cent
    notification,  \* this.notification: textContent and className
    timers,        \* the pending timers of showNotification, oldest first
    pc,            \* where handleSubmit is: "idle", "transfer", "submitting"
    progress,      \* simulateQuantumTransfer's progress
    data,          \* the data handed to submitDonation
    donation       \* how the last submitDonation promise settled

uiVars == <<inputs, submitBtn, progressBar, notification, timers, pc, progress, data, donation>>

NoData == <<>>

\* the values form.reset() restores
DefaultValues == [f \in Range(FormInputs) |-> <<>>]

\* the page after new QuantumDonationForm()
PageLoaded ==
    /\ inputs = DefaultValues
    /\ submitBtn = [disabled |-> FALSE, loading |-> FALSE]
    /\ progressBar = 0
    /\ notification = [textContent |-> "", className |-> {"notification"}]
    /\ timers = <<>>
    /\ pc = "idle"
    /\ progress = 0
    /\ data = NoData
    /\ donation = "none"

----------------------------------------------------------------------------
(* State *)

VARIABLES
    formErrors,   \* this.formErrors of the validator instance
    form,         \* the elements of the markup first handed in
    htmlContent,  \* the argument of the call
    passes,       \* how many times the text went through fixFormHTML before
    op,           \* the method that returned last, "new" before a call
    errors,       \* the list validateFormStructure returned
    tests,        \* the map validateAllRequirements returned
    fixedHTML,    \* the text fixFormHTML returned
    thrown        \* the exception the call raised, "none" if it returned

vars == <<formErrors, form, htmlContent, passes, op, errors, tests, fixedHTML, thrown>>

NoTests == [k \in {} |-> TRUE]

Init ==
    /\ formErrors = <<>>
    /\ \/ \E f \in Forms : form = f /\ htmlContent = Render(f)
       \/ form = ReferenceForm /\ htmlContent = generateCorrectedHTML
       \/ form = SampleForm /\ htmlContent = originalHTML
       \/ form = SixInputForm /\ htmlContent = Render(SixInputForm)
       \/ \E d \in Deviants : form = d.form /\ htmlContent = d.text
    /\ passes = 0
    /\ op = "new"
    /\ errors = <<>>
    /\ tests = NoTests
    /\ fixedHTML = <<>>
    /\ thrown = "none"
    /\ PageLoaded

\* validator.validateFormStructure(htmlContent), src/basic.js
ValidateFormStructure ==
    /\ op = "new"
    /\ op' = "validateFormStructure"
    /\ IF validateFormStructureThrows(htmlContent)
       THEN errors' = <<>> /\ thrown' = "TypeError"
       ELSE errors' = validateFormStructure(htmlContent) /\ thrown' = "none"
    /\ tests' = NoTests
    /\ fixedHTML' = <<>>
    /\ UNCHANGED <<formErrors, form, htmlContent, passes>>
    /\ UNCHANGED uiVars

\* validator.validateAllRequirements(htmlContent), src/basic.js
ValidateAllRequirements ==
    /\ op = "new"
    /\ op' = "validateAllRequirements"
    /\ IF validateAllRequirementsThrows(htmlContent)
       THEN tests' = NoTests /\ thrown' = "TypeError"
       ELSE tests' = validateAllRequirements(htmlContent) /\ thrown' = "none"
    /\ errors' = <<>>
    /\ fixedHTML' = <<>>
    /\ UNCHANGED <<formErrors, form, htmlContent, passes>>
    /\ UNCHANGED uiVars

\* validator.validateFormStructure(htmlContent), DonationFormValidator.java
J_ValidateFormStructure ==
    /\ op = "new"
    /\ \E order \in Orderings(J_labelIds(htmlContent)) :
          errors' = J_validateFormStructure(htmlContent, order)
    /\ op' = "J_validateFormStructure"
    /\ thrown' = "none"
    /\ tests' = NoTests
    /\ fixedHTML' = <<>>
    /\ UNCHANGED <<formErrors, form, htmlContent, passes>>
    /\ UNCHANGED uiVars

\* validator.validateAllRequirements(htmlContent), DonationFormValidator.java
J_ValidateAllRequirements ==
    /\ op = "new"
    /\ op' = "J_validateAllRequirements"
    /\ tests' = J_validateAllRequirements(htmlContent)
    /\ thrown' = "none"
    /\ errors' = <<>>
    /\ fixedHTML' = <<>>
    /\ UNCHANGED <<formErrors, form, htmlContent, passes>>
    /\ UNCHANGED uiVars

\* validator.fixFormHTML(htmlContent), DonationFormValidator.java
FixFormHTML ==
    /\ op = "new"
    /\ op' = "fixFormHTML"
    /\ \E res \in {fixFormHTML(htmlContent)} :
          /\ fixedHTML' = res.text
          /\ thrown' = IF res.ok THEN "none" ELSE "IllegalArgumentException"
    /\ errors' = <<>>
    /\ tests' = NoTests
    /\ UNCHANGED <<formErrors, form, htmlContent, passes>>
    /\ UNCHANGED uiVars

\* the caller hands the text fixFormHTML returned to the next call
PassOn ==
    /\ op = "fixFormHTML"
    /\ thrown = "none"
    /\ passes < MaxPasses
    /\ htmlContent' = fixedHTML
    /\ passes' = passes + 1
    /\ op' = "new"
    /\ errors' = <<>>
    /\ tests' = NoTests
    /\ fixedHTML' = <<>>
    /\ thrown' = "none"
    /\ UNCHANGED <<formErrors, form>>
    /\ UNCHANGED uiVars

\* the caller is done with the value returned and is ready for another call
\* on the same text
Discard ==
    /\ op # "new"
    /\ op' = "new"
    /\ errors' = <<>>
    /\ tests' = NoTests
    /\ fixedHTML' = <<>>
    /\ thrown' = "none"
    /\ UNCHANGED <<formErrors, form, htmlContent, passes>>
    /\ UNCHANGED uiVars

Next ==
    \/ ValidateFormStructure
    \/ ValidateAllRequirements
    \/ J_ValidateFormStructure
    \/ J_ValidateAllRequirements
    \/ FixFormHTML
    \/ PassOn
    \/ Discard

Spec == Init /\ [][Next]_vars

----------------------------------------------------------------------------
(* What the markup contains, read from the description of its elements *)

IsRequirable(d) == d.el = "input" /\ d.type \in {"text", "email", "number"}

LacksRequired(d) == IsRequirable(d) /\ ~d.required

LabelTargets(f) == { f[n].for : n \in { m \in DOMAIN f : f[m].el = "label" } }

InputIdsOf(f) == { f[n].id : n \in { m \in DOMAIN f : f[m].el = "input" /\ f[m].id # "" } }

ExpectedRequired(f) ==
    LET lacking == SelectSeq(f, LacksRequired)
    IN  [n \in 1..Len(lacking) |-> RequiredMsg(<<lacking[n].type>>)]

Count(seq, x) == Cardinality({ n \in DOMAIN seq : seq[n] = x })

IsLabelMsg(m) == Head(m) = Head(LabelMsg(<<>>))

IsRequiredMsg(m) == Head(m) = Head(RequiredMsg(<<>>))

\* the block of validateFormStructure a diagnostic comes from
Kind(m) ==
    CASE m = VoidMsg -> 1
      [] IsLabelMsg(m) -> 2
      [] IsRequiredMsg(m) -> 3
      [] m = EmailMsg -> 4
      [] OTHER -> 0

StructureReturned == op \in {"validateFormStructure", "J_validateFormStructure"}

RequirementsReturned == op \in {"validateAllRequirements", "J_validateAllRequirements"}

\* the text is the rendering of form: no fixFormHTML pass has rewritten it
Described == passes = 0

----------------------------------------------------------------------------
(* Claims *)

\* C1: validateStructure applied to the markup generateReference() returns
\* gives an empty diagnostic sequence.
C1_ReferenceHasNoDiagnostics ==
    (StructureReturned /\ htmlContent = generateCorrectedHTML)
        => (thrown = "none" /\ errors = <<>>)

C1_Witness ==
    /\ op = "validateFormStructure"
    /\ htmlContent = generateCorrectedHTML
    /\ thrown = "none"
    /\ errors = <<>>

\* C2: validateAllRequirements applied to the markup generateReference()
\* returns maps every one of its rule names to true.
C2_ReferenceMeetsAllRequirements ==
    (RequirementsReturned /\ htmlContent = generateCorrectedHTML)
        => /\ thrown = "none"
           /\ DOMAIN tests # {}
           /\ \A k \in DOMAIN tests : tests[k] = TRUE

C2_Witness ==
    /\ op = "validateAllRequirements"
    /\ htmlContent = generateCorrectedHTML
    /\ Cardinality(DOMAIN tests) = 14
    /\ \A k \in DOMAIN tests : tests[k]

\* C3 as stated: for the defective sample validateStructure returns a
\* non-empty sequence holding the void-closing-tag diagnostic, the
\* email-type diagnostic and a label-association diagnostic for each of two
\* unassociated field identifiers.
C3_SampleDiagnosticsAsStated ==
    (StructureReturned /\ htmlContent = originalHTML)
        => /\ errors # <<>>
           /\ VoidMsg \in Range(errors)
           /\ EmailMsg \in Range(errors)
           /\ Cardinality({ m \in Range(errors) : IsLabelMsg(m) }) = 2

\* C3 amended: for the defective sample validateStructure returns exactly
\* the void-closing-tag diagnostic, a required-attribute diagnostic for each
\* of the text, text and number inputs, and the email-type diagnostic; it
\* holds no label-association diagnostic, the sample having no label.
C3_SampleDiagnostics ==
    (StructureReturned /\ htmlContent = originalHTML)
        => /\ thrown = "none"
           /\ errors = << VoidMsg, RequiredMsg(<<"text">>), RequiredMsg(<<"text">>),
                          RequiredMsg(<<"number">>), EmailMsg >>
           /\ \A n \in DOMAIN errors : ~IsLabelMsg(errors[n])

C3_Witness ==
    /\ op = "validateFormStructure"
    /\ htmlContent = originalHTML
    /\ Len(errors) = 5
    /\ LabelTargets(form) = {}

\* C4: fix is idempotent on the sample: fix(originalHTML) has a value and
\* fix applied to that value returns it unchanged.
C4_FixIdempotentOnSample ==
    (op = "fixFormHTML" /\ form = SampleForm)
        => /\ thrown = "none"
           /\ (passes = 1 => fixedHTML = htmlContent)

\* C5: validateStructure, validateAllRequirements and fix are total: every
\* call returns a value and none raises an exception.
C5_NoCallThrows == thrown = "none"

\* C6: validateStructure emits a label-association diagnostic naming x for
\* exactly the label targets x that no input id matches, also when the
\* markup has labels and no input with an id at all.
C6_OrphanLabelsReported ==
    (StructureReturned /\ Described)
        => \A x \in LabelTargets(form) :
              (LabelMsg(<<x>>) \in Range(errors)) <=> (x \notin InputIdsOf(form))

\* C7: the diagnostics are ordered: the void-closing-tag diagnostic (at most
\* one), then the label-association ones, then the required-attribute ones
\* in document order of the inputs, then the email-type one (at most one).
C7_DiagnosticsOrdered ==
    StructureReturned
        => /\ \A n \in DOMAIN errors : Kind(errors[n]) \in 1..4
           /\ \A m, n \in DOMAIN errors : m < n => Kind(errors[m]) <= Kind(errors[n])
           /\ Count(errors, VoidMsg) <= 1
           /\ Count(errors, EmailMsg) <= 1
           /\ Described => SelectSeq(errors, IsRequiredMsg) = ExpectedRequired(form)

C7_Witness ==
    /\ StructureReturned
    /\ Described
    /\ \E a, b, c, d \in DOMAIN errors :
          /\ a < b /\ b < c /\ c < d
          /\ Kind(errors[a]) = 1
          /\ Kind(errors[b]) = 2
          /\ Kind(errors[c]) = 3
          /\ Kind(errors[d]) = 4

\* C8: validateStructure emits exactly one required-attribute diagnostic,
\* naming the variant, for every text, email or number input that lacks the
\* required marker, and none for the inputs that carry it nor for checkbox
\* and submit inputs.
C8_RequiredDiagnostics ==
    (StructureReturned /\ Described)
        => \A t \in {"text", "email", "number", "checkbox", "submit"} :
              Count(errors, RequiredMsg(<<t>>))
                  = Cardinality({ n \in DOMAIN form :
                                      LacksRequired(form[n]) /\ form[n].type = t })

C8_Witness ==
    /\ op = "validateFormStructure"
    /\ Described
    /\ Count(errors, RequiredMsg(<<"text">>)) = 1
    /\ \E n \in DOMAIN form : form[n].type = "text" /\ form[n].required

\* C9: validateStructure emits the email-type diagnostic if and only if no
\* input element of the markup carries the email variant.
C9_EmailDiagnostic ==
    (StructureReturned /\ Described)
        => ((EmailMsg \in Range(errors))
               <=> ~\E n \in DOMAIN form : form[n].el = "input" /\ form[n].type = "email")

C9_Witness ==
    /\ op = "validateFormStructure"
    /\ Described
    /\ EmailMsg \in Range(errors)
    /\ \E n \in DOMAIN form : form[n].el = "input" /\ form[n].name = "email"

RuleNames ==
    { "noInputClosingTags", "fiveInputElements", "fourLabelElements", "firstLabelText",
      "firstInputRequired", "secondLabelText", "secondInputRequired", "thirdLabelText",
      "thirdInputRequired", "fourthLabelText", "labelInputAssociation", "emailInputType",
      "checkboxNotRequired", "submitNotRequired" }

J_RuleNames ==
    { "no_input_closing_tags", "five_input_elements", "four_label_elements",
      "first_label_text", "first_input_required", "second_label_text",
      "second_input_required", "third_label_text", "third_input_required",
      "fourth_label_text", "label_input_association", "email_input_type",
      "checkbox_not_required", "submit_not_required" }

\* C10: the rule names validateAllRequirements returns are the same fixed
\* set of 14 keys for every markup and every call.
C10_RuleNamesFixed ==
    /\ Cardinality(RuleNames) = 14
    /\ Cardinality(J_RuleNames) = 14
    /\ op = "validateAllRequirements" => (thrown = "none" /\ DOMAIN tests = RuleNames)
    /\ op = "J_validateAllRequirements" => (thrown = "none" /\ DOMAIN tests = J_RuleNames)

C10_Witness ==
    /\ op = "validateAllRequirements"
    /\ htmlContent = <<>>
    /\ DOMAIN tests = RuleNames
    /\ ~tests.fiveInputElements

InputCount(f) == Cardinality({ n \in DOMAIN f : f[n].el = "input" })

\* C11: the five-input-elements rule of validateAllRequirements is true
\* exactly when the markup has exactly five input opening tags; for markup
\* with no input element it is false and the call returns without raising.
C11_FiveInputElements ==
    (RequirementsReturned /\ Described)
        => /\ thrown = "none"
           /\ op = "validateAllRequirements"
                 => (tests.fiveInputElements <=> InputCount(form) = 5)
           /\ op = "J_validateAllRequirements"
                 => (tests.five_input_elements <=> InputCount(form) = 5)

C11_Witness ==
    /\ op = "J_validateAllRequirements"
    /\ Described
    /\ InputCount(form) = 0
    /\ LabelTargets(form) # {}
    /\ thrown = "none"
    /\ ~tests.five_input_elements

\* h holds pre, then white space or nothing, then post
HasShape(h, pre, post) ==
    \E i \in 1..Len(h) :
       /\ StartsWithAt(h, i, pre)
       /\ \E j \in (i + Len(pre))..(Len(h) + 1) :
             /\ \A k \in (i + Len(pre))..(j - 1) : IsSpace(h[k])
             /\ StartsWithAt(h, j, post)

\* h holds an </input> closing tag or one of the exact shapes fix rewrites
HasRewriteShape(h) ==
    \/ includes(h, CloseInput)
    \/ includes(h, RawInputEmail)
    \/ HasShape(h, <<"Full", SP, "Name:">>, RawInputName)
    \/ HasShape(h, <<"Donation", SP, "Amount", SP, "(", DOLLAR, ")", ":">>, RawInputAmount)
    \/ HasShape(h, RawInputNewsletter, <<"Subscribe">>)

DeviantTexts == { d.text : d \in Deviants }

\* C13: fix returns its input unchanged when the markup holds no </input>
\* closing tag and none of the exact rewrite shapes; so it does for the
\* reference template and for an input that misses its shape by attribute
\* order or by an extra attribute.
C13_FixLeavesOtherMarkup ==
    /\ (op = "fixFormHTML" /\ ~HasRewriteShape(htmlContent))
          => (thrown = "none" /\ fixedHTML = htmlContent)
    /\ (op = "fixFormHTML" /\ htmlContent \in DeviantTexts \cup {generateCorrectedHTML})
          => (thrown = "none" /\ fixedHTML = htmlContent)

C13_Witness ==
    /\ op = "fixFormHTML"
    /\ htmlContent = generateCorrectedHTML
    /\ ~HasRewriteShape(htmlContent)
    /\ thrown = "none"
    /\ fixedHTML = generateCorrectedHTML

\* C16: fix applied to the sample returns a text, and validateStructure
\* applied to that text returns an empty diagnostic sequence.
C16_FixedSampleHasNoDiagnostics ==
    /\ (op = "fixFormHTML" /\ htmlContent = originalHTML /\ passes = 0)
          => thrown = "none"
    /\ (StructureReturned /\ form = SampleForm /\ passes = 1)
          => (thrown = "none" /\ errors = <<>>)

----------------------------------------------------------------------------
(* The page script as a state machine.  A step is one task of the event    *)
(* loop: an event handler or a timer callback, together with the promise    *)
(* continuations it makes ready.                                            *)

MaxTimers == 2

\* what the user may type into a field
InputValues(field) ==
    CASE field = "fullName" -> { <<>>, <<SP>>, <<"A">> }
      [] field = "emailAddress" -> { <<>>, <<"a">>, <<"a", "@", "b", ".", "c">> }
      [] field = "donationAmount" -> { <<>>, <<"0">>, <<"5">> }

\* Math.random() * 20, sampled
Increments == {0, 19}

FieldName(field) ==
    CASE field = "fullName" -> "name"
      [] field = "emailAddress" -> "email"
      [] field = "donationAmount" -> "amount"

\* Object.fromEntries(new FormData(this.form))
FormData(v) ==
    [n \in { FieldName(f) : f \in Range(FormInputs) } |->
        v[CHOOSE f \in Range(FormInputs) : FieldName(f) = n]]

\* this.notification after showNotification(message, type)
Shown(message, type) ==
    [textContent |-> message, className |-> {"notification", "show", type}]

\* the pending timers after k calls of showNotification: each call starts a
\* timer and cancels none; own marks the timer of the call that set what the
\* notification shows now
TimersAfter(ts, k) == [n \in 1..(Len(ts) + k) |-> [own |-> n = Len(ts) + k]]

UIInit ==
    /\ PageLoaded
    /\ formErrors = <<>>
    /\ form = <<>>
    /\ htmlContent = <<>>
    /\ passes = 0
    /\ op = "new"
    /\ errors = <<>>
    /\ tests = NoTests
    /\ fixedHTML = <<>>
    /\ thrown = "none"

\* the user edits a field: the "input" listeners of setupFormValidation
\* (clearFieldError, a style) and of setupProgressTracking
UserInput(field, v) ==
    /\ v # inputs[field]
    /\ inputs' = [inputs EXCEPT ![field] = v]
    /\ progressBar' = filledProgress(inputs')
    /\ UNCHANGED <<submitBtn, notification, timers, pc, progress, data, donation>>
    /\ UNCHANGED vars

\* the user leaves a field: the "blur" listener calls validateField
Blur(field) ==
    /\ Len(timers) < MaxTimers
    /\ ~validateField(field, inputs[field])
    /\ notification' = Shown(fieldError(field, inputs[field]), "error")
    /\ timers' = TimersAfter(timers, 1)
    /\ UNCHANGED <<inputs, submitBtn, progressBar, pc, progress, data, donation>>
    /\ UNCHANGED vars

\* the "submit" listener: handleSubmit up to its first await.  A disabled
\* submit button lets no submit event through.
HandleSubmit ==
    /\ ~submitBtn.disabled
    /\ Len(timers) < MaxTimers
    /\ IF ~validateForm(inputs)
       THEN /\ notification' = Shown(FixText, "error")
            /\ timers' = TimersAfter(timers, Len(formErrorTexts(inputs)) + 1)
            /\ UNCHANGED <<submitBtn, pc, progress>>
       ELSE /\ submitBtn' = [disabled |-> TRUE, loading |-> TRUE]
            /\ pc' = "transfer"
            /\ progress' = 0
            /\ UNCHANGED <<notification, timers>>
    /\ UNCHANGED <<inputs, progressBar, data, donation>>
    /\ UNCHANGED vars

\* the setInterval callback of simulateQuantumTransfer; at 100 it resolves,
\* and handleSubmit goes on to read the form and to call submitDonation
TransferTick(inc) ==
    /\ pc = "transfer"
    /\ IF progress + inc >= 100
       THEN /\ progress' = 100
            /\ progressBar' = 100
            /\ data' = FormData(inputs)
            /\ donation' = "pending"
            /\ pc' = "submitting"
       ELSE /\ progress' = progress + inc
            /\ progressBar' = progress + inc
            /\ UNCHANGED <<data, donation, pc>>
    /\ UNCHANGED <<inputs, submitBtn, notification, timers>>
    /\ UNCHANGED vars

\* the try block run to its end, and no finally after it
DonationResolves_noFinally ==
    /\ pc = "submitting"
    /\ donation' = "resolved"
    /\ notification' = Shown(SuccessText, "success")
    /\ timers' = TimersAfter(timers, 1)
    /\ inputs' = DefaultValues
    /\ progressBar' = 0
    /\ pc' = "idle"
    /\ data' = NoData
    /\ UNCHANGED <<progress, submitBtn>>
    /\ UNCHANGED vars

\* the setTimeout callback of submitDonation resolves; handleSubmit runs its
\* try block to the end, then finally
DonationResolves ==
    /\ pc = "submitting"
    /\ donation' = "resolved"
    /\ notification' = Shown(SuccessText, "success")
    /\ timers' = TimersAfter(timers, 1)
    /\ inputs' = DefaultValues
    /\ progressBar' = 0
    /\ submitBtn' = [disabled |-> FALSE, loading |-> FALSE]
    /\ pc' = "idle"
    /\ data' = NoData
    /\ UNCHANGED progress
    /\ UNCHANGED vars

\* catch resets the form and the progress bar as well
DonationRejects_reset ==
    /\ pc = "submitting"
    /\ donation' = "rejected"
    /\ notification' = Shown(FailedText, "error")
    /\ timers' = TimersAfter(timers, 1)
    /\ inputs' = DefaultValues
    /\ progressBar' = 0
    /\ submitBtn' = [disabled |-> FALSE, loading |-> FALSE]
    /\ pc' = "idle"
    /\ data' = NoData
    /\ UNCHANGED progress
    /\ UNCHANGED vars

\* the setTimeout callback of submitDonation rejects; handleSubmit runs catch,
\* then finally
DonationRejects ==
    /\ pc = "submitting"
    /\ donation' = "rejected"
    /\ notification' = Shown(FailedText, "error")
    /\ timers' = TimersAfter(timers, 1)
    /\ submitBtn' = [disabled |-> FALSE, loading |-> FALSE]
    /\ pc' = "idle"
    /\ data' = NoData
    /\ UNCHANGED <<inputs, progressBar, progress>>
    /\ UNCHANGED vars

\* the oldest setTimeout callback of showNotification runs (all have the
\* same delay, so they run in the order they were started)
NotificationTimer ==
    /\ timers # <<>>
    /\ notification' = [notification EXCEPT !.className = @ \ {"show"}]
    /\ timers' = Tail(timers)
    /\ UNCHANGED <<inputs, submitBtn, progressBar, pc, progress, data, donation>>
    /\ UNCHANGED vars

UINext ==
    \/ \E field \in Range(FormInputs) : \E v \in InputValues(field) : UserInput(field, v)
    \/ \E field \in Range(FormInputs) : Blur(field)
    \/ HandleSubmit
    \/ \E inc \in Increments : TransferTick(inc)
    \/ DonationResolves
    \/ DonationRejects
    \/ NotificationTimer

UISpec == UIInit /\ [][UINext]_uiVars

\* a timer that is due runs; Math.random() does not return 0 for ever
UIFairSpec ==
    /\ UISpec
    /\ WF_uiVars(\E inc \in Increments \ {0} : TransferTick(inc))
    /\ WF_uiVars(DonationResolves \/ DonationRejects)

----------------------------------------------------------------------------
(* Claims about the page script *)

\* C12: every donation handed to submitDonation has all required fields
\* filled (non-empty after trimming) in the submitted data, whatever the
\* user does while the submission is under way.
C12_SubmittedDataFilled ==
    pc = "submitting" => \A n \in DOMAIN data : trim(data[n]) # <<>>

ButtonBusy == submitBtn.disabled /\ submitBtn.loading

ButtonFree == ~submitBtn.disabled /\ ~submitBtn.loading

\* C14: once handleSubmit has passed validation and set the button disabled
\* and loading, the button is eventually enabled again and loading removed,
\* submitDonation having resolved or rejected; the button is disabled by a
\* submit whose validation passes and by nothing else.
C14_ButtonReenabled ==
    /\ [][(~submitBtn.disabled /\ submitBtn.disabled') => validateForm(inputs)]_uiVars
    /\ [][(pc = "submitting" /\ pc' = "idle") =>
             (donation' \in {"resolved", "rejected"} /\ ButtonFree')]_uiVars
    /\ ButtonBusy ~> (ButtonFree /\ donation \in {"resolved", "rejected"})

C14_Witness ==
    /\ donation = "rejected"
    /\ pc = "idle"
    /\ ButtonFree
    /\ notification.textContent = FailedText

\* C15: handleSubmit resets the form and sets the progress bar to 0 when
\* submitDonation resolves, with a success notification, and at no other
\* step; when submitDonation rejects it shows an error notification and
\* leaves the field values and the progress bar as they were.
C15_ResetOnlyOnSuccess ==
    [][ /\ (pc = "submitting" /\ donation' = "resolved")
            => /\ inputs' = DefaultValues
               /\ progressBar' = 0
               /\ notification' = Shown(SuccessText, "success")
        /\ (pc = "submitting" /\ donation' = "rejected")
            => /\ inputs' = inputs
               /\ progressBar' = progressBar
               /\ notification' = Shown(FailedText, "error")
        /\ ((pc' # pc \/ progress' # progress)
               /\ ~(pc = "submitting" /\ donation' = "resolved"))
            => inputs' = inputs ]_uiVars

C15_Witness ==
    /\ donation = "rejected"
    /\ pc = "idle"
    /\ inputs # DefaultValues
    /\ validateForm(inputs)
    /\ progressBar = 100
    /\ notification = Shown(FailedText, "error")

\* C17: the "show" state of the notification is removed only by the timer
\* started by the showNotification call that displayed it, never by a timer
\* left over from an earlier call.
C17_HiddenByOwnTimer ==
    [][("show" \in notification.className /\ "show" \notin notification'.className)
          => (timers # <<>> /\ Head(timers).own)]_uiVars

====
